---- MODULE Spec2Model ----
(***************************************************************************)
(* Model of the payment core of ravgateway: the on-chain verification of   *)
(* an ERC-20 transfer (docs/BLOCKCHAIN.md, docs/SECURITY.md) and the       *)
(* invoice row that the payment page updates to 'paid'.                    *)
(*                                                                         *)
(* Two specifications share the variables:                                 *)
(*   SpecVerify  verifyPayment as a function of its inputs                 *)
(*   Spec        payment sessions racing on one invoice row                *)
(***************************************************************************)
EXTENDS Integers, Sequences, FiniteSets, TLC

\* null / undefined for string-valued fields
NULL == "null"

\* null / undefined where an object (receipt, log) is expected
Null == [null |-> TRUE]

(***************************************************************************)
(* Unbounded integers (bigint) as sequences of decimal digits, most        *)
(* significant first, no leading zero except for zero itself.              *)
(***************************************************************************)
Digits == 0..9

RECURSIVE StripZeros(_)
StripZeros(ds) ==
    IF Len(ds) > 1 /\ ds[1] = 0 THEN StripZeros(Tail(ds)) ELSE ds

RECURSIVE Zeros(_)
Zeros(n) == IF n <= 0 THEN <<>> ELSE <<0>> \o Zeros(n - 1)

Front(ds) == SubSeq(ds, 1, Len(ds) - 1)

RECURSIVE SuccDigits(_)
SuccDigits(ds) ==
    IF ds = <<>> THEN <<1>>
    ELSE IF ds[Len(ds)] < 9
         THEN Front(ds) \o <<ds[Len(ds)] + 1>>
         ELSE SuccDigits(Front(ds)) \o <<0>>

RECURSIVE PredDigits(_)
PredDigits(ds) ==
    IF ds[Len(ds)] > 0
    THEN Front(ds) \o <<ds[Len(ds)] - 1>>
    ELSE PredDigits(Front(ds)) \o <<9>>

BigSucc(a) == StripZeros(SuccDigits(a))
BigPred(a) == StripZeros(PredDigits(a))

RECURSIVE LexLess(_, _)
LexLess(a, b) ==
    IF a = <<>> THEN FALSE
    ELSE IF a[1] # b[1] THEN a[1] < b[1]
    ELSE LexLess(Tail(a), Tail(b))

\* a < b on bigints
BigLess(a, b) ==
    \/ Len(a) < Len(b)
    \/ Len(a) = Len(b) /\ LexLess(a, b)

(***************************************************************************)
(* Network / token registry                                                *)
(***************************************************************************)
baseConfig ==
    [rpcUrl |-> "https://mainnet.base.org",
     stablecoin |-> [address |-> "0x8335..USDC", symbol |-> "USDC", decimals |-> 6]]

celoConfig ==
    [rpcUrl |-> "https://forno.celo.org",
     stablecoin |-> [address |-> "0x765D..cUSD", symbol |-> "cUSD", decimals |-> 18]]

NETWORKS == [base |-> baseConfig, celo |-> celoConfig]

Networks == DOMAIN NETWORKS

TOKEN_DECIMALS == [USDC |-> 6, USDT |-> 6, cUSD |-> 18, CELO |-> 18]

\* a contract that is not the stablecoin of any network
OtherContract == "0xdead..FAKE"

(***************************************************************************)
(* Addresses: an account and the letter case it is written in.             *)
(***************************************************************************)
Accounts == {"merchant", "merchantNew", "stranger", "payer"}
Cases == {"lower", "checksum"}

Addr(acct, c) == [acct |-> acct, case |-> c]

toLowerCase(a) == [a EXCEPT !.case = "lower"]

\* ethers.getAddress: the checksummed form of a (lower-case) hex address
getAddress(a) == [a EXCEPT !.case = "checksum"]

(***************************************************************************)
(* Amount conversion.  A USD amount is the decimal numeral that            *)
(* Number.prototype.toString prints: whole digits and fraction digits.     *)
(***************************************************************************)
NumericFault == [ok |-> FALSE, error |-> "NUMERIC_FAULT"]

\* ethers.parseUnits(value, decimals): throws when the numeral has more
\* fraction digits than the token has decimals
parseUnits(value, decimals) ==
    IF Len(value.frac) > decimals
    THEN NumericFault
    ELSE [ok |-> TRUE,
          value |-> StripZeros(value.whole \o value.frac
                               \o Zeros(decimals - Len(value.frac)))]

parseAmount(usdAmount, tokenSymbol) ==
    parseUnits(usdAmount, TOKEN_DECIMALS[tokenSymbol])

RECURSIVE StripTrailingZeros(_)
StripTrailingZeros(ds) ==
    IF Len(ds) > 1 /\ ds[Len(ds)] = 0 THEN StripTrailingZeros(Front(ds)) ELSE ds

\* ethers.formatUnits(value, decimals)
formatUnits(value, decimals) ==
    LET padded == Zeros(decimals + 1 - Len(value)) \o value
        cut    == Len(padded) - decimals
    IN  [whole |-> SubSeq(padded, 1, cut),
         frac  |-> StripTrailingZeros(SubSeq(padded, cut + 1, Len(padded)))]

\* width of the uint256 word in a log's data field (decimal digits here)
DataWidth == 24

\* the abi encoding of a uint256: left-padded to the word width
EncodeUint(a) == Zeros(DataWidth - Len(a)) \o a

\* BigInt(data) for a non-empty hex string
BigInt(data) == StripZeros(data)

(***************************************************************************)
(* Receipts and logs                                                       *)
(***************************************************************************)
transferTopic == "Transfer(address,address,uint256)"
approvalTopic == "Approval(address,address,uint256)"

\* throw new Error(msg)
Error(msg) == [verified |-> FALSE, error |-> msg]

\* receipt.logs.find(log => log.topics[0] === transferTopic)
RECURSIVE find(_)
find(logs) ==
    IF logs = <<>> THEN Null
    ELSE IF Len(logs[1].topics) >= 1 /\ logs[1].topics[1] = transferTopic
         THEN logs[1]
         ELSE find(Tail(logs))

\* variant: the amount check written with <= instead of <
verifyTransferLog_lessOrEqual(txHash, expectedRecipient, expectedAmount, network, receipt, transferLog) ==
    IF Len(transferLog.topics) < 3
    THEN Error("TypeError")
    ELSE IF transferLog.data = <<>>
    THEN Error("SyntaxError")
    ELSE
      LET recipient == getAddress(transferLog.topics[3])
          amount    == BigInt(transferLog.data)
      IN  IF toLowerCase(recipient) # toLowerCase(expectedRecipient)
          THEN Error("Recipient mismatch")
          ELSE IF ~BigLess(expectedAmount, amount)
          THEN Error("Amount mismatch")
          ELSE [verified    |-> TRUE,
                txHash      |-> txHash,
                recipient   |-> recipient,
                amount      |-> formatUnits(amount,
                                  NETWORKS[network].stablecoin.decimals),
                blockNumber |-> receipt.blockNumber]

\* variant: the recipient compared without lower-casing both sides
verifyTransferLog_caseSensitive(txHash, expectedRecipient, expectedAmount, network, receipt, transferLog) ==
    IF Len(transferLog.topics) < 3
    THEN Error("TypeError")
    ELSE IF transferLog.data = <<>>
    THEN Error("SyntaxError")
    ELSE
      LET recipient == getAddress(transferLog.topics[3])
          amount    == BigInt(transferLog.data)
      IN  IF recipient # expectedRecipient
          THEN Error("Recipient mismatch")
          ELSE IF BigLess(amount, expectedAmount)
          THEN Error("Amount mismatch")
          ELSE [verified    |-> TRUE,
                txHash      |-> txHash,
                recipient   |-> recipient,
                amount      |-> formatUnits(amount,
                                  NETWORKS[network].stablecoin.decimals),
                blockNumber |-> receipt.blockNumber]

\* the part of verifyPayment after the Transfer log has been found
verifyTransferLog(txHash, expectedRecipient, expectedAmount, network, receipt, transferLog) ==
    IF Len(transferLog.topics) < 3
    THEN Error("TypeError")      \* topics[2] is undefined: .slice throws
    ELSE IF transferLog.data = <<>>
    THEN Error("SyntaxError")    \* BigInt("0x") throws
    ELSE
      LET recipient == getAddress(transferLog.topics[3])
          amount    == BigInt(transferLog.data)
      IN  IF toLowerCase(recipient) # toLowerCase(expectedRecipient)
          THEN Error("Recipient mismatch")
          ELSE IF BigLess(amount, expectedAmount)
          THEN Error("Amount mismatch")
          ELSE [verified    |-> TRUE,
                txHash      |-> txHash,
                recipient   |-> recipient,
                amount      |-> formatUnits(amount,
                                  NETWORKS[network].stablecoin.decimals),
                blockNumber |-> receipt.blockNumber]

\* variant: the receipt's status is never looked at
verifyPayment_noStatusCheck(txHash, expectedRecipient, expectedAmount, network, receipt) ==
    IF network \notin Networks
    THEN Error("TypeError")
    ELSE IF receipt = Null
    THEN Error("Transaction not found")
    ELSE
      LET transferLog == find(receipt.logs)
      IN  IF transferLog = Null
          THEN Error("Transfer event not found")
          ELSE verifyTransferLog(txHash, expectedRecipient, expectedAmount,
                                 network, receipt, transferLog)

\* docs/BLOCKCHAIN.md verifyPayment; receipt is the RPC's answer for txHash
verifyPayment(txHash, expectedRecipient, expectedAmount, network, receipt) ==
    IF network \notin Networks
    THEN Error("TypeError")      \* networkConfig is undefined
    ELSE IF receipt = Null
    THEN Error("Transaction not found")
    ELSE IF receipt.status = 0
    THEN Error("Transaction failed")
    ELSE
      LET transferLog == find(receipt.logs)
      IN  IF transferLog = Null
          THEN Error("Transfer event not found")
          ELSE verifyTransferLog(txHash, expectedRecipient, expectedAmount,
                                 network, receipt, transferLog)

\* docs/SECURITY.md verifyPayment: returns true
verifyPaymentSecurity(txHash, expectedRecipient, expectedAmount, network, receipt) ==
    IF network \notin Networks
    THEN Error("TypeError")
    ELSE IF receipt = Null \/ receipt.status = 0
    THEN Error("Transaction failed")
    ELSE
      LET transferLog == find(receipt.logs)
      IN  IF transferLog = Null
          THEN Error("Transfer event not found")
          ELSE LET r == verifyTransferLog(txHash, expectedRecipient,
                            expectedAmount, network, receipt, transferLog)
               IN  IF r.verified THEN [verified |-> TRUE] ELSE r

(***************************************************************************)
(* State                                                                   *)
(***************************************************************************)
VARIABLES
    vIn,         \* SpecVerify: the arguments of one verifyPayment call
    vOut,        \* SpecVerify: what the two verifyPayment versions answered
    invoices,    \* the invoices table: id -> row
    now,         \* the clock
    pc,          \* per payment session: where it is in the payment flow
    tx,          \* per payment session: the hash its wallet returned
    result,      \* per payment session: outcome of its invoice update
    verifiedTx,  \* hashes for which verifyPayment has answered verified
    views,       \* number of view events the invoice has received
    paidFrom,    \* the status the invoice had when it first became paid
    profileWallet, \* profiles.wallet_address of the merchant
    pageWallet,  \* per payment session: the merchant wallet its page loaded
    api_keys,    \* the api_keys table: key_hash -> row
    apiInvoices, \* the invoices table the API endpoints read and insert into
    reqPc,       \* per API request: where its handler is
    reqCtx,      \* per API request: the handler's local variables
    resp,        \* per API request: the response sent
    dbLog,       \* per API request: the database operations it has issued
    accepted     \* per API key: the requests validateApiKey has accepted

verifyVars == <<vIn, vOut>>
payVars == <<invoices, now, pc, tx, result, verifiedTx, views, paidFrom>>
walletVars == <<profileWallet, pageWallet>>
apiVars == <<api_keys, apiInvoices, reqPc, reqCtx, resp, dbLog, accepted>>
vars == <<vIn, vOut, invoices, now, pc, tx, result, verifiedTx, views, paidFrom, profileWallet, pageWallet, api_keys, apiInvoices, reqPc, reqCtx, resp, dbLog, accepted>>

(***************************************************************************)
(* Bounds                                                                  *)
(***************************************************************************)
MaxLogs == 2
NumSessions == 2
MaxTime == 2
MaxViews == 2

Sessions == 1..NumSessions
InvoiceIds == {"inv1"}

(***************************************************************************)
(* Inputs of verifyPayment                                                 *)
(***************************************************************************)
\* 100, 0.5 and 1.0000001 dollars
InvoiceAmounts ==
    { [whole |-> <<1, 0, 0>>, frac |-> <<>>],
      [whole |-> <<0>>,       frac |-> <<5>>],
      [whole |-> <<1>>,       frac |-> <<0, 0, 0, 0, 0, 0, 1>>] }

VerifyNetworks == Networks \cup {"solana"}

RawAddr(acct) == Addr(acct, "lower")

\* a well-formed Transfer log
TransferLog(address, to, amount) ==
    [address |-> address,
     topics  |-> <<transferTopic, RawAddr("payer"), RawAddr(to)>>,
     data    |-> EncodeUint(amount)]

LogSpace(network, expectedAmount) ==
    LET Emitters == {NETWORKS[network].stablecoin.address, OtherContract}
        Amounts  == {<<0>>, BigPred(expectedAmount), expectedAmount,
                     BigSucc(expectedAmount), expectedAmount \o <<0>>}
    IN  { TransferLog(a, to, amt) :
            a \in Emitters, to \in {"merchant", "stranger"}, amt \in Amounts }
        \cup
        { [address |-> a,
           topics  |-> <<approvalTopic, RawAddr("payer"), RawAddr("merchant")>>,
           data    |-> EncodeUint(expectedAmount)] : a \in Emitters }
        \cup
        { [address |-> a, topics |-> <<transferTopic>>,
           data |-> EncodeUint(expectedAmount)] : a \in Emitters }
        \cup
        { [address |-> a,
           topics  |-> <<transferTopic, RawAddr("payer"), RawAddr("merchant")>>,
           data    |-> <<>>] : a \in Emitters }

SeqsUpTo(S, n) == UNION { [1..k -> S] : k \in 0..n }

ReceiptSpace(network, expectedAmount) ==
    {Null} \cup
    [status : {0, 1},
     logs : SeqsUpTo(LogSpace(network, expectedAmount), MaxLogs),
     blockNumber : {7}]

\* the amount the caller passes: the invoice amount in the token's units
ExpectedAmount(usdAmount, network) ==
    parseAmount(usdAmount, NETWORKS[network].stablecoin.symbol)

(***************************************************************************)
(* The invoices table and the payment page                                 *)
(***************************************************************************)
\* paid_at TIMESTAMP when it is NULL
NoTime == -1

\* the invoice the payment sessions pay
invoiceId == "inv1"

\* the merchant wallet the payment page sends to
merchantWalletAddress == Addr("merchant", "checksum")

\* $100 (const amount = 100)
amount100 == [whole |-> <<1, 0, 0>>, frac |-> <<>>]

\* due_date of the invoice: the last clock value but one, so that the
\* invoice can be seen both before and after it is due
DueDate == MaxTime - 1

NewInvoice(status) ==
    [status   |-> status,
     amount   |-> amount100,
     network  |-> "base",
     due_date |-> DueDate,
     paid_at  |-> NoTime,
     tx_hash  |-> NULL]

\* the transactions a wallet can return, and what the chain holds for each
TxHashes == {"txA", "txB", "txRevert"}

tokenAmount == parseUnits(amount100, 6).value

getTransactionReceipt(h) ==
    IF h = "txRevert"
    THEN [status |-> 0, logs |-> <<>>, blockNumber |-> 7]
    ELSE [status |-> 1,
          logs |-> <<TransferLog(NETWORKS["base"].stablecoin.address,
                                 "merchant", tokenAmount)>>,
          blockNumber |-> 7]

\* variant: the update also stamps paid_at with the current time
markPaid_stampsPaidAt(table, id, txHash) ==
    [i \in DOMAIN table |->
        IF i = id
        THEN [table[i] EXCEPT !.tx_hash = txHash, !.status = "paid",
                              !.paid_at = now]
        ELSE table[i]]

\* variant: the status written follows the receipt's status
markPaid_statusFromReceipt(table, id, txHash) ==
    [i \in DOMAIN table |->
        IF i = id
        THEN [table[i] EXCEPT !.tx_hash = txHash,
                 !.status = IF getTransactionReceipt(txHash).status = 1
                            THEN "paid" ELSE "sent"]
        ELSE table[i]]

\* variant: the update is filtered to invoices not yet due
\* (.in('status', ['sent', 'viewed']) and due_date >= now)
markPaid_rejectsOverdue(table, id, txHash) ==
    [i \in DOMAIN table |->
        IF i = id /\ table[i].status # "overdue" /\ now <= table[i].due_date
        THEN [table[i] EXCEPT !.tx_hash = txHash, !.status = "paid"]
        ELSE table[i]]

\* supabase.from('invoices').update({tx_hash, status: 'paid'}).eq('id', id)
markPaid(table, id, txHash) ==
    [i \in DOMAIN table |->
        IF i = id
        THEN [table[i] EXCEPT !.tx_hash = txHash, !.status = "paid"]
        ELSE table[i]]

\* the merchant wallet as the profile holds it when the invoice is issued
InitWalletIdle ==
    /\ profileWallet = merchantWalletAddress
    /\ pageWallet = [s \in Sessions |-> NULL]

(***************************************************************************)
(* The API: keys, requests and the invoices the endpoints insert           *)
(***************************************************************************)
NumRequests == 2
RateLimit == 2

Requests == 1..NumRequests

\* a property the request body does not carry
Undefined == "undefined"

\* hashApiKey: the hex digest of the key
hashApiKey(key) == <<"sha256", key>>

ApiKeyStrings == {"rav_live_A", "rav_live_B"}

\* the rows of api_keys: an active key of merchant A with used calls, and a
\* deactivated key of merchant B
ApiKeyRow(key, used) ==
    [id         |-> key,
     profile_id |-> IF key = "rav_live_A" THEN "merchantA" ELSE "merchantB",
     tier       |-> "starter",
     rate_limit |-> RateLimit,
     calls_used |-> used,
     is_active  |-> key = "rav_live_A",
     last_used_at |-> NoTime]

\* an invoice the table holds before any API request: made in the dashboard
SeedInvoice(id, merchant, status, created) ==
    [id             |-> id,
     merchant_id    |-> merchant,
     invoice_number |-> <<"INV", "seed", id>>,
     client_name    |-> "Bob",
     client_email   |-> "bob@example.com",
     items          |-> <<[price |-> 4, quantity |-> 1]>>,
     description    |-> NULL,
     amount         |-> 4,
     network        |-> "base",
     status         |-> status,
     issue_date     |-> created,
     due_date       |-> created + 7,
     reminder_count |-> 0,
     created_at     |-> created,
     paid_at        |-> IF status = "paid" THEN 0 ELSE NoTime,
     tx_hash        |-> IF status = "paid" THEN "txA" ELSE NULL]

\* two invoices of merchant A, one of them paid, and one of merchant B
SeedInvoices ==
    <<SeedInvoice(1, "merchantA", "sent", -3),
      SeedInvoice(2, "merchantA", "paid", -2),
      SeedInvoice(3, "merchantB", "sent", -1)>>

NoContext == [handler |-> NULL, method |-> NULL, apiKey |-> NULL, auth |-> Null, invoice |-> Null]
NoResponse == [status |-> 0]

InitApiTables(used) ==
    /\ api_keys = [h \in {hashApiKey(k) : k \in ApiKeyStrings} |->
                     ApiKeyRow(h[2], used)]
    /\ apiInvoices = SeedInvoices
    /\ reqPc = [r \in Requests |-> "idle"]
    /\ reqCtx = [r \in Requests |-> NoContext]
    /\ resp = [r \in Requests |-> NoResponse]
    /\ dbLog = [r \in Requests |-> <<>>]
    /\ accepted = [k \in ApiKeyStrings |-> used]

InitApiIdle == InitApiTables(0)

(***************************************************************************)
(* SpecVerify: one verifyPayment call on arbitrary inputs                  *)
(***************************************************************************)
InitPayIdle ==
    /\ invoices = [i \in InvoiceIds |-> NewInvoice("sent")]
    /\ now = 0
    /\ pc = [s \in Sessions |-> "idle"]
    /\ tx = [s \in Sessions |-> NULL]
    /\ result = [s \in Sessions |-> NULL]
    /\ verifiedTx = {}
    /\ views = 0
    /\ paidFrom = NULL
    /\ InitWalletIdle

InitVerify ==
    /\ \E c \in Cases, a \in InvoiceAmounts, n \in VerifyNetworks :
         LET exp == IF n \in Networks THEN ExpectedAmount(a, n)
                    ELSE parseUnits(a, 6)
         IN  \E r \in IF n \in Networks /\ exp.ok
                      THEN ReceiptSpace(n, exp.value) ELSE {Null} :
               vIn = [txHash            |-> "0xabc",
                      expectedRecipient |-> Addr("merchant", c),
                      usdAmount         |-> a,
                      expected          |-> exp,
                      network           |-> n,
                      receipt           |-> r]
    /\ vOut = [done |-> FALSE]
    /\ InitPayIdle
    /\ InitApiIdle

\* the caller's conversion throws: verifyPayment is never entered
ConversionFails ==
    /\ ~vOut.done
    /\ ~vIn.expected.ok
    /\ vOut' = [done |-> TRUE, called |-> FALSE]
    /\ UNCHANGED <<vIn, payVars, walletVars, apiVars>>

\* variant: the invoice is updated with the hash before it is verified
VerifyPaymentCall_updatesFirst ==
    /\ ~vOut.done
    /\ vIn.expected.ok
    /\ vOut' = [done       |-> TRUE,
                called     |-> TRUE,
                blockchain |-> verifyPayment(vIn.txHash, vIn.expectedRecipient,
                                  vIn.expected.value, vIn.network, vIn.receipt),
                security   |-> verifyPaymentSecurity(vIn.txHash,
                                  vIn.expectedRecipient, vIn.expected.value,
                                  vIn.network, vIn.receipt)]
    /\ invoices' = markPaid(invoices, invoiceId, vIn.txHash)
    /\ UNCHANGED <<vIn, now, pc, tx, result, verifiedTx, views, paidFrom, walletVars, apiVars>>

VerifyPaymentCall ==
    /\ ~vOut.done
    /\ vIn.expected.ok
    /\ vOut' = [done       |-> TRUE,
                called     |-> TRUE,
                blockchain |-> verifyPayment(vIn.txHash, vIn.expectedRecipient,
                                  vIn.expected.value, vIn.network, vIn.receipt),
                security   |-> verifyPaymentSecurity(vIn.txHash,
                                  vIn.expectedRecipient, vIn.expected.value,
                                  vIn.network, vIn.receipt)]
    /\ UNCHANGED <<vIn, payVars, walletVars, apiVars>>

NextVerify == ConversionFails \/ VerifyPaymentCall

SpecVerify == InitVerify /\ [][NextVerify]_vars

(***************************************************************************)
(* Spec: payment sessions (browser tabs) paying the same invoice           *)
(***************************************************************************)
Init ==
    /\ vIn = [network |-> "base"]
    /\ vOut = [done |-> TRUE]
    /\ \E st \in {"draft", "sent"} :
         invoices = [i \in InvoiceIds |-> NewInvoice(st)]
    /\ now = 0
    /\ pc = [s \in Sessions |-> "idle"]
    /\ tx = [s \in Sessions |-> NULL]
    /\ result = [s \in Sessions |-> NULL]
    /\ verifiedTx = {}
    /\ views = 0
    /\ paidFrom = NULL
    /\ InitWalletIdle
    /\ InitApiIdle

\* const tx = await tokenContract.transfer(merchantWalletAddress, tokenAmount)
SendTransfer(s) ==
    /\ pc[s] = "idle"
    /\ \E h \in TxHashes : tx' = [tx EXCEPT ![s] = h]
    /\ pc' = [pc EXCEPT ![s] = "sent"]
    /\ UNCHANGED <<verifyVars, apiVars, walletVars, invoices, now, result, verifiedTx, views, paidFrom>>

\* the invoice update, awaited; its outcome is not inspected
UpdateInvoice(s) ==
    /\ invoices' = markPaid(invoices, invoiceId, tx[s])
    /\ paidFrom' = IF paidFrom = NULL THEN invoices[invoiceId].status
                   ELSE paidFrom
    /\ result' = [result EXCEPT ![s] = "ok"]
    /\ pc' = [pc EXCEPT ![s] = "done"]

\* docs/SECURITY.md: the hash is stored right after the wallet returned it
UpdateAfterSend(s) ==
    /\ pc[s] = "sent"
    /\ UpdateInvoice(s)
    /\ UNCHANGED <<verifyVars, apiVars, walletVars, now, tx, verifiedTx, views>>

\* docs/BLOCKCHAIN.md: const receipt = await tx.wait()
WaitForReceipt(s) ==
    /\ pc[s] = "sent"
    /\ pc' = [pc EXCEPT ![s] =
                IF getTransactionReceipt(tx[s]).status = 1
                THEN "confirmed" ELSE "reverted"]
    /\ UNCHANGED <<verifyVars, apiVars, walletVars, invoices, now, tx, result, verifiedTx, views, paidFrom>>

\* docs/BLOCKCHAIN.md: if (receipt.status === 1) update the invoice
UpdateAfterConfirm(s) ==
    /\ pc[s] = "confirmed"
    /\ UpdateInvoice(s)
    /\ UNCHANGED <<verifyVars, apiVars, walletVars, now, tx, verifiedTx, views>>

\* a session asks verifyPayment about its transaction
VerifyTx(s) ==
    /\ pc[s] \in {"sent", "confirmed"}
    /\ LET inv == invoices[invoiceId]
           r   == verifyPayment(tx[s], merchantWalletAddress,
                      ExpectedAmount(inv.amount, inv.network).value,
                      inv.network, getTransactionReceipt(tx[s]))
       IN  verifiedTx' = IF r.verified THEN verifiedTx \cup {tx[s]}
                         ELSE verifiedTx
    /\ UNCHANGED <<verifyVars, apiVars, walletVars, invoices, now, pc, tx, result, views, paidFrom>>

\* draft -> sent
Send(i) ==
    /\ invoices[i].status = "draft"
    /\ invoices' = [invoices EXCEPT ![i].status = "sent"]
    /\ UNCHANGED <<verifyVars, apiVars, walletVars, now, pc, tx, result, verifiedTx, views, paidFrom>>

\* variant: every view stores viewed, whatever the status was
View_always(i) ==
    /\ views < MaxViews
    /\ views' = views + 1
    /\ invoices' = [invoices EXCEPT ![i].status = "viewed"]
    /\ UNCHANGED <<verifyVars, apiVars, walletVars, now, pc, tx, result, verifiedTx, paidFrom>>

\* a view event: sent -> viewed on the first view, no change otherwise
View(i) ==
    /\ views < MaxViews
    /\ views' = views + 1
    /\ invoices' = IF invoices[i].status = "sent"
                   THEN [invoices EXCEPT ![i].status = "viewed"]
                   ELSE invoices
    /\ UNCHANGED <<verifyVars, apiVars, walletVars, now, pc, tx, result, verifiedTx, paidFrom>>

\* sent/viewed -> overdue once the due date has passed
ClockCheck(i) ==
    /\ invoices[i].status \in {"sent", "viewed"}
    /\ now > invoices[i].due_date
    /\ invoices' = [invoices EXCEPT ![i].status = "overdue"]
    /\ UNCHANGED <<verifyVars, apiVars, walletVars, now, pc, tx, result, verifiedTx, views, paidFrom>>

Tick ==
    /\ now < MaxTime
    /\ now' = now + 1
    /\ UNCHANGED <<verifyVars, apiVars, walletVars, invoices, pc, tx, result, verifiedTx, views, paidFrom>>

\* variant: a failed notification puts the invoice back to sent
Notify_rollsBack(s) ==
    /\ pc[s] = "done"
    /\ \E delivered \in BOOLEAN :
         /\ pc' = [pc EXCEPT ![s] = IF delivered THEN "notified" ELSE "notifyFailed"]
         /\ invoices' = IF delivered THEN invoices
                        ELSE [invoices EXCEPT ![invoiceId].status = "sent",
                                              ![invoiceId].tx_hash = NULL]
    /\ UNCHANGED <<verifyVars, apiVars, walletVars, now, tx, result, verifiedTx, views, paidFrom>>

\* supabase.functions.invoke('send-receipt-email', ...) after the update;
\* the invocation may fail
Notify(s) ==
    /\ pc[s] = "done"
    /\ \E delivered \in BOOLEAN :
         pc' = [pc EXCEPT ![s] = IF delivered THEN "notified" ELSE "notifyFailed"]
    /\ UNCHANGED <<verifyVars, apiVars, walletVars, invoices, now, tx, result, verifiedTx, views, paidFrom>>

Next ==
    \/ \E s \in Sessions : SendTransfer(s)
    \/ \E s \in Sessions : UpdateAfterSend(s)
    \/ \E s \in Sessions : WaitForReceipt(s)
    \/ \E s \in Sessions : UpdateAfterConfirm(s)
    \/ \E s \in Sessions : VerifyTx(s)
    \/ \E i \in InvoiceIds : Send(i)
    \/ \E i \in InvoiceIds : View(i)
    \/ \E i \in InvoiceIds : ClockCheck(i)
    \/ Tick
    \/ \E s \in Sessions : Notify(s)

Spec == Init /\ [][Next]_vars

(***************************************************************************)
(* SpecWallet: the merchant changes the wallet while invoices are payable  *)
(***************************************************************************)
\* what the merchant can type into the wallet field of the settings page
EmptyWallet == Addr("", "lower")
InvalidWallet == Addr("not-an-address", "lower")

SettingsInputs ==
    {EmptyWallet, InvalidWallet,
     Addr("merchant", "checksum"), Addr("merchantNew", "checksum"),
     Addr("merchantNew", "lower")}

\* /^0x[a-fA-F0-9]{40}$/.test(walletAddress)
walletValid(w) == w.acct \in {"merchant", "merchantNew"}

InitWallet ==
    /\ vIn = [network |-> "base"]
    /\ vOut = [done |-> TRUE]
    /\ InitPayIdle
    /\ InitApiIdle

\* Settings.tsx handleSaveSettings: returns early on an invalid address,
\* otherwise updates profiles.wallet_address
handleSaveSettings ==
    /\ \E walletAddress \in SettingsInputs :
         IF walletAddress # EmptyWallet /\ ~walletValid(walletAddress)
         THEN UNCHANGED profileWallet
         ELSE profileWallet' = walletAddress
    /\ UNCHANGED <<verifyVars, apiVars, payVars, pageWallet>>

\* the payment page loads the merchant's wallet address from the profile
OpenPaymentPage(s) ==
    /\ pc[s] = "idle"
    /\ pageWallet' = [pageWallet EXCEPT ![s] = profileWallet]
    /\ pc' = [pc EXCEPT ![s] = "opened"]
    /\ UNCHANGED <<verifyVars, apiVars, invoices, now, tx, result, verifiedTx, views, paidFrom, profileWallet>>

\* before payment: the profile's wallet is fetched and compared with the one
\* the page expects; a difference throws
CheckMerchantWallet(s) ==
    /\ pc[s] = "opened"
    /\ LET expectedWalletAddress == pageWallet[s]
           merchantProfile == [wallet_address |-> profileWallet]
       IN  IF merchantProfile.wallet_address # expectedWalletAddress
           THEN /\ result' = [result EXCEPT ![s] =
                       "Merchant wallet address has changed - please refresh"]
                /\ pc' = [pc EXCEPT ![s] = "done"]
           ELSE /\ pc' = [pc EXCEPT ![s] = "checked"]
                /\ UNCHANGED result
    /\ UNCHANGED <<verifyVars, apiVars, invoices, now, tx, verifiedTx, views, paidFrom, walletVars>>

\* tokenContract.transfer(merchantWalletAddress, tokenAmount) to the loaded
\* address
PayToPageWallet(s) ==
    /\ pc[s] = "checked"
    /\ pageWallet[s] # EmptyWallet
    /\ tx' = [tx EXCEPT ![s] = "txA"]
    /\ pc' = [pc EXCEPT ![s] = "sent"]
    /\ UNCHANGED <<verifyVars, apiVars, invoices, now, result, verifiedTx, views, paidFrom, walletVars>>

\* the receipt of the transfer session s made
WalletReceipt(s) ==
    [status |-> 1,
     logs |-> <<TransferLog(NETWORKS["base"].stablecoin.address,
                            pageWallet[s].acct, tokenAmount)>>,
     blockNumber |-> 7]

\* the transfer is verified against the address the page expects
AcceptPayment(s) ==
    /\ pc[s] = "sent"
    /\ LET expectedWalletAddress == pageWallet[s]
           r == verifyPayment(tx[s], expectedWalletAddress, tokenAmount,
                              "base", WalletReceipt(s))
       IN  result' = [result EXCEPT ![s] =
              IF r.verified THEN "verified" ELSE r.error]
    /\ pc' = [pc EXCEPT ![s] = "done"]
    /\ UNCHANGED <<verifyVars, apiVars, invoices, now, tx, verifiedTx, views, paidFrom, walletVars>>

NextWallet ==
    \/ handleSaveSettings
    \/ \E s \in Sessions : OpenPaymentPage(s)
    \/ \E s \in Sessions : CheckMerchantWallet(s)
    \/ \E s \in Sessions : PayToPageWallet(s)
    \/ \E s \in Sessions : AcceptPayment(s)

SpecWallet == InitWallet /\ [][NextWallet]_vars

\* C13: the recipient a payment is verified against is the merchant wallet
\* captured when the invoice was issued, also after the merchant has saved
\* another wallet address in the settings.
C13_RecipientIsIssueTimeSnapshot ==
    \A s \in Sessions :
        (pc[s] = "done" /\ result[s] = "verified")
            => pageWallet[s] = merchantWalletAddress

(***************************************************************************)
(* SpecApi: requests to the invoice endpoints                              *)
(***************************************************************************)
Methods == {"OPTIONS", "GET", "POST"}

\* what the X-API-Key header can carry
HeaderInputs == {Undefined, "rav_live_unknown"} \cup ApiKeyStrings

\* the items property of a body: absent, a string, or an array
ItemsInputs ==
    {[present |-> FALSE, isArray |-> FALSE, elems |-> <<>>],
     [present |-> TRUE, isArray |-> FALSE, elems |-> <<>>],
     [present |-> TRUE, isArray |-> TRUE, elems |-> <<>>],
     [present |-> TRUE, isArray |-> TRUE,
      elems |-> <<[price |-> 5, quantity |-> 2], [price |-> 3, quantity |-> 1]>>]}

\* request bodies of the client_email version of the handler
ClientBodies ==
    [client_name  : {Undefined, "Ann"},
     client_email : {Undefined, "ann@example.com"},
     items        : ItemsInputs,
     network      : {Undefined, "solana"},
     due_days     : {Undefined}]

\* request bodies of the customer_email version of the handler
CustomerBodies ==
    [customer_email : {Undefined, "ann@example.com"},
     items          : ItemsInputs,
     currency       : {Undefined},
     blockchain     : {Undefined, "Celo"}]

\* a destructuring default: it replaces an absent property only
Default(v, d) == IF v = Undefined THEN d ELSE v

\* v || null
OrNull(v) == IF v = Undefined THEN NULL ELSE v

\* variant: only the first item is counted
reduce_firstItemOnly(items) == IF items = <<>> THEN 0 ELSE items[1].price * items[1].quantity

\* items.reduce((sum, item) => sum + item.price * item.quantity, 0)
RECURSIVE reduce(_)
reduce(items) ==
    IF items = <<>> THEN 0
    ELSE reduce(Front(items))
           + items[Len(items)].price * items[Len(items)].quantity

\* !email || !items || !Array.isArray(items) || items.length === 0
InvalidRequest(email, items) ==
    \/ email = Undefined
    \/ ~items.present
    \/ ~items.isArray
    \/ Len(items.elems) = 0

\* the columns of the invoices table, and those declared NOT NULL without a
\* default
InvoiceColumns ==
    {"id", "merchant_id", "invoice_number", "client_name", "client_email",
     "amount", "status", "description", "items", "issue_date", "due_date",
     "paid_at", "tx_hash", "network", "last_reminded_at", "reminder_count",
     "created_at", "updated_at"}

RequiredColumns ==
    {"merchant_id", "invoice_number", "client_name", "client_email",
     "amount", "due_date"}

RequiredText == {"merchant_id", "client_name", "client_email"}

\* the insert is refused: a column the table does not have, or a NOT NULL
\* column left out or null
InsertError(row) ==
    \/ ~(DOMAIN row \subseteq InvoiceColumns)
    \/ ~(RequiredColumns \subseteq DOMAIN row)
    \/ \E c \in RequiredText : row[c] = NULL

\* the row as the table holds it: the inserted columns and the defaults
StoredRow(row, id) ==
    [id             |-> id,
     merchant_id    |-> row.merchant_id,
     invoice_number |-> row.invoice_number,
     client_name    |-> row.client_name,
     client_email   |-> row.client_email,
     items          |-> row.items,
     description    |-> row.description,
     amount         |-> row.amount,
     network        |-> row.network,
     status         |-> row.status,
     issue_date     |-> row.issue_date,
     due_date       |-> row.due_date,
     reminder_count |-> row.reminder_count,
     created_at     |-> row.created_at,
     paid_at        |-> NoTime,
     tx_hash        |-> NULL]

\* res.status(status): the handler returns and its locals are gone
Respond(r, status) ==
    /\ resp' = [resp EXCEPT ![r] = [status |-> status]]
    /\ reqPc' = [reqPc EXCEPT ![r] = "done"]
    /\ reqCtx' = [reqCtx EXCEPT ![r] = NoContext]

\* request r issues one more database operation
Issue(r, op) == dbLog' = [dbLog EXCEPT ![r] = Append(@, op)]

\* the key of merchant A has one call left
InitApi ==
    /\ vIn = [network |-> "base"]
    /\ vOut = [done |-> TRUE]
    /\ InitPayIdle
    /\ InitApiTables(RateLimit - 1)

\* the four handlers and the method each of them serves
Handlers == {"create", "createCustomer", "list", "get"}

AllowedMethod(handler) ==
    IF handler \in {"create", "createCustomer"} THEN "POST" ELSE "GET"

\* variant: a request without the header goes on to validateApiKey
Receive_noHeaderCheck(r) ==
    /\ reqPc[r] = "idle"
    /\ \E method \in Methods, apiKey \in HeaderInputs, handler \in Handlers :
         IF method = "OPTIONS"
         THEN Respond(r, 200)
         ELSE IF method # AllowedMethod(handler)
         THEN Respond(r, 405)
         ELSE /\ reqCtx' = [reqCtx EXCEPT ![r] =
                   [handler |-> handler, method |-> method, apiKey |-> apiKey,
                    auth |-> Null, invoice |-> Null]]
              /\ reqPc' = [reqPc EXCEPT ![r] = "validate"]
              /\ UNCHANGED resp
    /\ UNCHANGED <<verifyVars, payVars, walletVars, api_keys, apiInvoices, dbLog, accepted>>

\* a handler up to the call of validateApiKey
Receive(r) ==
    /\ reqPc[r] = "idle"
    /\ \E method \in Methods, apiKey \in HeaderInputs, handler \in Handlers :
         IF method = "OPTIONS"
         THEN Respond(r, 200)
         ELSE IF method # AllowedMethod(handler)
         THEN Respond(r, 405)
         ELSE IF apiKey = Undefined
         THEN Respond(r, 401)
         ELSE /\ reqCtx' = [reqCtx EXCEPT ![r] =
                   [handler |-> handler, method |-> method, apiKey |-> apiKey,
                    auth |-> Null, invoice |-> Null]]
              /\ reqPc' = [reqPc EXCEPT ![r] = "validate"]
              /\ UNCHANGED resp
    /\ UNCHANGED <<verifyVars, payVars, walletVars, api_keys, apiInvoices, dbLog, accepted>>

\* variant: the select does not filter on is_active
ValidateSelect_ignoresActive(r) ==
    /\ reqPc[r] = "validate"
    /\ LET keyHash == hashApiKey(reqCtx[r].apiKey)
           rows == {h \in DOMAIN api_keys : h = keyHash}
       IN  /\ Issue(r, [table |-> "api_keys", op |-> "select", key |-> reqCtx[r].apiKey])
           /\ IF rows = {}
              THEN Respond(r, 401)
              ELSE LET data == api_keys[keyHash]
                   IN  IF data.calls_used >= data.rate_limit
                       THEN Respond(r, 401)
                       ELSE /\ reqCtx' = [reqCtx EXCEPT ![r].auth = data]
                            /\ reqPc' = [reqPc EXCEPT ![r] = "usage"]
                            /\ UNCHANGED resp
    /\ UNCHANGED <<verifyVars, payVars, walletVars, api_keys, apiInvoices, accepted>>

\* validateApiKey, the select: null for no active row and for a used-up key
ValidateSelect(r) ==
    /\ reqPc[r] = "validate"
    /\ LET keyHash == hashApiKey(reqCtx[r].apiKey)
           rows == {h \in DOMAIN api_keys : h = keyHash /\ api_keys[h].is_active}
       IN  /\ Issue(r, [table |-> "api_keys", op |-> "select", key |-> reqCtx[r].apiKey])
           /\ IF rows = {}
              THEN Respond(r, 401)
              ELSE LET data == api_keys[keyHash]
                   IN  IF data.calls_used >= data.rate_limit
                       THEN Respond(r, 401)
                       ELSE /\ reqCtx' = [reqCtx EXCEPT ![r].auth = data]
                            /\ reqPc' = [reqPc EXCEPT ![r] = "usage"]
                            /\ UNCHANGED resp
    /\ UNCHANGED <<verifyVars, payVars, walletVars, api_keys, apiInvoices, accepted>>

\* validateApiKey, the update: calls_used becomes the value read plus one
ValidateUpdate(r) ==
    /\ reqPc[r] = "usage"
    /\ LET data == reqCtx[r].auth
       IN  api_keys' = [h \in DOMAIN api_keys |->
                          IF api_keys[h].id = data.id
                          THEN [api_keys[h] EXCEPT !.calls_used = data.calls_used + 1,
                                                   !.last_used_at = now]
                          ELSE api_keys[h]]
    /\ Issue(r, [table |-> "api_keys", op |-> "update"])
    /\ accepted' = [accepted EXCEPT ![reqCtx[r].auth.id] = @ + 1]
    /\ reqPc' = [reqPc EXCEPT ![r] = "body"]
    /\ UNCHANGED <<verifyVars, payVars, walletVars, apiInvoices, reqCtx, resp>>

\* the client_email handler from the body to the invoice number
CreateInvoice(r) ==
    /\ reqPc[r] = "body"
    /\ reqCtx[r].handler = "create"
    /\ \E body \in ClientBodies, rpcError \in BOOLEAN :
         LET network  == Default(body.network, "base")
             due_days == Default(body.due_days, 7)
             amount   == reduce(body.items.elems)
             row == [merchant_id    |-> reqCtx[r].auth.profile_id,
                     invoice_number |-> <<"INV", "api", r>>,
                     client_name    |-> OrNull(body.client_name),
                     client_email   |-> body.client_email,
                     items          |-> body.items.elems,
                     description    |-> NULL,
                     amount         |-> amount,
                     network        |-> network,
                     status         |-> "sent",
                     issue_date     |-> now,
                     due_date       |-> now + due_days,
                     reminder_count |-> 0,
                     created_at     |-> now,
                     updated_at     |-> now]
         IN  IF InvalidRequest(body.client_email, body.items)
             THEN Respond(r, 400) /\ UNCHANGED dbLog
             ELSE /\ Issue(r, [table |-> "rpc", op |-> "generate_invoice_number"])
                  /\ IF rpcError
                     THEN Respond(r, 500)
                     ELSE /\ reqCtx' = [reqCtx EXCEPT ![r].invoice = row]
                          /\ reqPc' = [reqPc EXCEPT ![r] = "insert"]
                          /\ UNCHANGED resp
    /\ UNCHANGED <<verifyVars, payVars, walletVars, api_keys, apiInvoices, accepted>>

\* the client_email handler, the insert and the response
InsertInvoice(r) ==
    /\ reqPc[r] = "insert"
    /\ Issue(r, [table |-> "invoices", op |-> "insert"])
    /\ LET row == reqCtx[r].invoice
       IN  IF InsertError(row)
           THEN Respond(r, 500) /\ UNCHANGED apiInvoices
           ELSE /\ apiInvoices' =
                     Append(apiInvoices, StoredRow(row, Len(apiInvoices) + 1))
                /\ Respond(r, 201)
    /\ UNCHANGED <<verifyVars, payVars, walletVars, api_keys, accepted>>

\* the customer_email handler from the body to the response
CreateInvoiceCustomer(r) ==
    /\ reqPc[r] = "body"
    /\ reqCtx[r].handler = "createCustomer"
    /\ \E body \in CustomerBodies :
         LET currency   == Default(body.currency, "USDC")
             blockchain == Default(body.blockchain, "Base")
             total      == reduce(body.items.elems)
             row == [profile_id     |-> reqCtx[r].auth.profile_id,
                     invoice_number |-> <<"INV", "api", r>>,
                     customer_email |-> body.customer_email,
                     items          |-> body.items.elems,
                     currency       |-> currency,
                     blockchain     |-> blockchain,
                     total_amount   |-> total,
                     status         |-> "pending",
                     created_at     |-> now]
         IN  IF InvalidRequest(body.customer_email, body.items)
             THEN Respond(r, 400) /\ UNCHANGED <<apiInvoices, dbLog>>
             ELSE /\ Issue(r, [table |-> "invoices", op |-> "insert"])
                  /\ IF InsertError(row)
                     THEN Respond(r, 500) /\ UNCHANGED apiInvoices
                     ELSE /\ apiInvoices' = Append(apiInvoices, row)
                          /\ Respond(r, 201)
    /\ UNCHANGED <<verifyVars, payVars, walletVars, api_keys, accepted>>

\* a query parameter: absent, or its text
NoParam == [present |-> FALSE, text |-> <<>>]
Param(text) == [present |-> TRUE, text |-> text]

DigitValue ==
    [c \in {"0", "1", "2", "3", "4", "5", "6", "7", "8", "9"} |->
       CASE c = "0" -> 0 [] c = "1" -> 1 [] c = "2" -> 2 [] c = "3" -> 3
         [] c = "4" -> 4 [] c = "5" -> 5 [] c = "6" -> 6 [] c = "7" -> 7
         [] c = "8" -> 8 [] c = "9" -> 9]

RECURSIVE DecimalValue(_)
DecimalValue(ds) ==
    IF ds = <<>> THEN 0
    ELSE 10 * DecimalValue(Front(ds)) + DigitValue[ds[Len(ds)]]

NaN == [nan |-> TRUE, value |-> 0]

\* parseInt: an optional sign, then the longest run of digits; NaN without one
parseInt(q) ==
    IF ~q.present THEN NaN
    ELSE LET neg  == q.text # <<>> /\ q.text[1] = "-"
             rest == IF neg THEN Tail(q.text) ELSE q.text
             n    == CHOOSE k \in 0..Len(rest) :
                       /\ \A j \in 1..k : rest[j] \in DOMAIN DigitValue
                       /\ k < Len(rest) => rest[k + 1] \notin DOMAIN DigitValue
             v    == DecimalValue(SubSeq(rest, 1, n))
         IN  IF n = 0 THEN NaN
             ELSE [nan |-> FALSE, value |-> IF neg THEN 0 - v ELSE v]

\* Math.min(parseInt(req.query.limit) || 50, 100)
listLimit(q) ==
    LET p == parseInt(q)
        asked == IF p.nan \/ p.value = 0 THEN 50 ELSE p.value
    IN  IF asked < 100 THEN asked ELSE 100

\* status && ['pending', 'paid', 'expired'].includes(status)
statusFilterApplies(status) ==
    status # Undefined /\ status \in {"pending", "paid", "expired"}

\* the rows the list query selects for a merchant
ListMatches(table, profile_id, status) ==
    {k \in 1..Len(table) :
       /\ table[k].merchant_id = profile_id
       /\ statusFilterApplies(status) => table[k].status = status}

\* the orders a sort on created_at, newest first, can give the rows S
RECURSIVE Orderings(_, _)
Orderings(table, S) ==
    IF S = {} THEN {<<>>}
    ELSE LET newest == {k \in S : \A j \in S :
                           table[j].created_at <= table[k].created_at}
         IN  UNION {{<<k>> \o t : t \in Orderings(table, S \ {k})} : k \in newest}

\* what the list response shows of an invoice
ListItem(inv) ==
    [invoice_id     |-> inv.id,
     invoice_number |-> inv.invoice_number,
     client_name    |-> inv.client_name,
     client_email   |-> inv.client_email,
     amount         |-> inv.amount,
     network        |-> inv.network,
     status         |-> inv.status,
     issue_date     |-> inv.issue_date,
     due_date       |-> inv.due_date,
     paid_at        |-> inv.paid_at,
     created_at     |-> inv.created_at]

\* what the get response shows of an invoice
GetItem(inv) ==
    [invoice_id     |-> inv.id,
     invoice_number |-> inv.invoice_number,
     client_name    |-> inv.client_name,
     client_email   |-> inv.client_email,
     items          |-> inv.items,
     description    |-> inv.description,
     amount         |-> inv.amount,
     network        |-> inv.network,
     status         |-> inv.status,
     payment_url    |-> <<"/pay/", inv.id>>,
     tx_hash        |-> inv.tx_hash,
     issue_date     |-> inv.issue_date,
     due_date       |-> inv.due_date,
     paid_at        |-> inv.paid_at,
     created_at     |-> inv.created_at]

\* the responses the list handler can give: the query with a limit of zero or
\* more returns the first rows of the sorted selection; a negative limit is
\* either refused by the database (500) or not applied
ListResponses(table, profile_id, limitParam, status) ==
    LET limit == listLimit(limitParam)
        S     == ListMatches(table, profile_id, status)
    IN  (IF limit < 0 THEN {[status |-> 500]} ELSE {})
        \cup
        { LET m == IF limit < 0 \/ Len(order) < limit THEN Len(order) ELSE limit
          IN  [status   |-> 200,
               invoices |-> [k \in 1..m |-> ListItem(table[order[k]])],
               count    |-> m] : order \in Orderings(table, S) }

\* the query parameters requests carry in SpecApi
LimitInputs == {NoParam, Param(<<"1">>), Param(<<"-", "1">>)}

StatusInputs == {Undefined, "paid", "sent"}

\* res.status(status).json(body)
RespondWith(r, body) ==
    /\ resp' = [resp EXCEPT ![r] = body]
    /\ reqPc' = [reqPc EXCEPT ![r] = "done"]
    /\ reqCtx' = [reqCtx EXCEPT ![r] = NoContext]

\* the list handler from the query parameters to the response
ListInvoices(r) ==
    /\ reqPc[r] = "body"
    /\ reqCtx[r].handler = "list"
    /\ \E limitParam \in LimitInputs, status \in StatusInputs :
         \E body \in ListResponses(apiInvoices, reqCtx[r].auth.profile_id,
                                   limitParam, status) :
            RespondWith(r, body)
    /\ Issue(r, [table |-> "invoices", op |-> "select"])
    /\ UNCHANGED <<verifyVars, payVars, walletVars, api_keys, apiInvoices, accepted>>

\* the ids a get request can ask for: an own invoice, a foreign one, one the
\* API may have created, one that does not exist
GetIds == {1, 3, 4, 9}

\* variant: the invoice is fetched by id alone
GetInvoice_noOwnerFilter(r) ==
    /\ reqPc[r] = "body"
    /\ reqCtx[r].handler = "get"
    /\ \E id \in GetIds :
         LET found == {k \in 1..Len(apiInvoices) : apiInvoices[k].id = id}
         IN  /\ Issue(r, [table |-> "invoices", op |-> "select", id |-> id])
             /\ IF Cardinality(found) # 1
                THEN Respond(r, 404)
                ELSE RespondWith(r,
                       [status  |-> 200,
                        invoice |-> GetItem(apiInvoices[CHOOSE k \in found : TRUE])])
    /\ UNCHANGED <<verifyVars, payVars, walletVars, api_keys, apiInvoices, accepted>>

\* the get handler from the id to the response
GetInvoice(r) ==
    /\ reqPc[r] = "body"
    /\ reqCtx[r].handler = "get"
    /\ \E id \in GetIds :
         LET found == {k \in 1..Len(apiInvoices) :
                         /\ apiInvoices[k].id = id
                         /\ apiInvoices[k].merchant_id = reqCtx[r].auth.profile_id}
         IN  /\ Issue(r, [table |-> "invoices", op |-> "select", id |-> id])
             /\ IF Cardinality(found) # 1
                THEN Respond(r, 404)
                ELSE RespondWith(r,
                       [status  |-> 200,
                        invoice |-> GetItem(apiInvoices[CHOOSE k \in found : TRUE])])
    /\ UNCHANGED <<verifyVars, payVars, walletVars, api_keys, apiInvoices, accepted>>

\* the merchant whose API keys page is open
DashboardUser == "merchantA"

\* the keys fetchApiKeys shows on that page
PageKeys == {h \in DOMAIN api_keys : api_keys[h].profile_id = DashboardUser}

\* toggleKeyStatus(id, currentStatus)
toggleKeyStatus(h) ==
    /\ h \in PageKeys
    /\ LET currentStatus == api_keys[h].is_active
       IN  api_keys' = [api_keys EXCEPT ![h].is_active = ~currentStatus]
    /\ UNCHANGED <<verifyVars, payVars, walletVars, apiInvoices, reqPc, reqCtx, resp, dbLog, accepted>>

\* deleteApiKey(id, name), confirmed
deleteApiKey(h) ==
    /\ h \in PageKeys
    /\ api_keys' = [g \in DOMAIN api_keys \ {h} |-> api_keys[g]]
    /\ UNCHANGED <<verifyVars, payVars, walletVars, apiInvoices, reqPc, reqCtx, resp, dbLog, accepted>>

NextApi ==
    \/ \E k \in ApiKeyStrings : toggleKeyStatus(hashApiKey(k))
    \/ \E k \in ApiKeyStrings : deleteApiKey(hashApiKey(k))
    \/ \E r \in Requests : ListInvoices(r)
    \/ \E r \in Requests : GetInvoice(r)
    \/ \E r \in Requests : Receive(r)
    \/ \E r \in Requests : ValidateSelect(r)
    \/ \E r \in Requests : ValidateUpdate(r)
    \/ \E r \in Requests : CreateInvoice(r)
    \/ \E r \in Requests : InsertInvoice(r)
    \/ \E r \in Requests : CreateInvoiceCustomer(r)

SpecApi == InitApi /\ [][NextApi]_vars

\* C20: every invoice the creation endpoint has stored has a network of the
\* registry and the status draft or sent.
C20_StoredNetworkAndStatus ==
    \A k \in (Len(SeedInvoices) + 1)..Len(apiInvoices) :
        /\ apiInvoices[k].network \in Networks
        /\ apiInvoices[k].status \in {"draft", "sent"}

(***************************************************************************)
(* SpecKeyGen: requests to the key-generation endpoint                     *)
(***************************************************************************)
\* the Authorization header: absent, another scheme, or a bearer token
NoHeader == [scheme |-> "", token |-> ""]

AuthHeaders ==
    {NoHeader, [scheme |-> "Basic ", token |-> "tokenA"]}
    \cup {[scheme |-> "Bearer ", token |-> t] : t \in {"tokenA", "tokenB", "stale"}}

\* supabase.auth.getUser(token): the user of a valid session token
getUser(token) ==
    CASE token = "tokenA" -> [ok |-> TRUE, id |-> "merchantA"]
      [] token = "tokenB" -> [ok |-> TRUE, id |-> "merchantB"]
      [] OTHER            -> [ok |-> FALSE, id |-> NULL]

\* the tier property of the body: absent, a documented tier, another string
TierInputs == {Undefined, "starter", "growth", "enterprise", "premium"}

\* rateLimits[tier]; undefined for a tier that is not a property
rateLimits(tier) ==
    CASE tier = "starter"    -> [defined |-> TRUE, value |-> 1000]
      [] tier = "growth"     -> [defined |-> TRUE, value |-> 10000]
      [] tier = "enterprise" -> [defined |-> TRUE, value |-> 100000]
      [] OTHER               -> [defined |-> FALSE, value |-> 0]

\* rate_limit INTEGER DEFAULT 1000: the column default fills an omitted value
RateLimitDefault == 1000

\* generateApiKey(): a fresh random key
generateApiKey(r) == "rav_live_" \o ToString(r)

InitKeyGen ==
    /\ vIn = [network |-> "base"]
    /\ vOut = [done |-> TRUE]
    /\ InitPayIdle
    /\ InitApiIdle

\* the handler up to the call of getUser
GenerateReceive(r) ==
    /\ reqPc[r] = "idle"
    /\ \E method \in Methods, authHeader \in AuthHeaders :
         IF method # "POST"
         THEN Respond(r, 405)
         ELSE IF authHeader.scheme # "Bearer "
         THEN Respond(r, 401)
         ELSE /\ reqCtx' = [reqCtx EXCEPT ![r] =
                   [handler |-> "generate", method |-> method,
                    apiKey |-> authHeader.token, auth |-> Null, invoice |-> Null]]
              /\ reqPc' = [reqPc EXCEPT ![r] = "getUser"]
              /\ UNCHANGED resp
    /\ UNCHANGED <<verifyVars, payVars, walletVars, api_keys, apiInvoices, dbLog, accepted>>

\* the token is verified
GenerateGetUser(r) ==
    /\ reqPc[r] = "getUser"
    /\ LET user == getUser(reqCtx[r].apiKey)
       IN  IF ~user.ok
           THEN Respond(r, 401)
           ELSE /\ reqCtx' = [reqCtx EXCEPT ![r].auth = user]
                /\ reqPc' = [reqPc EXCEPT ![r] = "insertKey"]
                /\ UNCHANGED resp
    /\ UNCHANGED <<verifyVars, payVars, walletVars, api_keys, apiInvoices, dbLog, accepted>>

\* the handler from the body to the response
GenerateInsert(r) ==
    /\ reqPc[r] = "insertKey"
    /\ \E tierInput \in TierInputs, dbError \in BOOLEAN :
         LET tier  == Default(tierInput, "starter")
             key   == generateApiKey(r)
             limit == rateLimits(tier)
             row == [id           |-> key,
                     profile_id   |-> reqCtx[r].auth.id,
                     name         |-> "Production API",
                     tier         |-> tier,
                     rate_limit   |-> IF limit.defined THEN limit.value
                                      ELSE RateLimitDefault,
                     calls_used   |-> 0,
                     is_active    |-> TRUE,
                     last_used_at |-> NoTime]
         IN  /\ Issue(r, [table |-> "api_keys", op |-> "insert"])
             /\ IF dbError
                THEN Respond(r, 500) /\ UNCHANGED api_keys
                ELSE /\ api_keys' = (hashApiKey(key) :> row) @@ api_keys
                     /\ RespondWith(r, [status     |-> 200,
                                        api_key    |-> key,
                                        id         |-> row.id,
                                        tier       |-> tier,
                                        rate_limit |-> row.rate_limit])
    /\ UNCHANGED <<verifyVars, payVars, walletVars, apiInvoices, accepted>>

NextKeyGen ==
    \/ \E r \in Requests : GenerateReceive(r)
    \/ \E r \in Requests : GenerateGetUser(r)
    \/ \E r \in Requests : GenerateInsert(r)

SpecKeyGen == InitKeyGen /\ [][NextKeyGen]_vars

\* the documented monthly limit of each tier
DocumentedLimit ==
    [t \in {"starter", "growth", "enterprise"} |->
       CASE t = "starter" -> 1000 [] t = "growth" -> 10000 [] OTHER -> 100000]

\* C25: every key row the generation endpoint has created has a documented
\* tier and the rate_limit documented for that tier.
C25_RateLimitMatchesTier ==
    \A r \in Requests :
        LET h == hashApiKey(generateApiKey(r))
        IN  h \in DOMAIN api_keys =>
              /\ api_keys[h].tier \in DOMAIN DocumentedLimit
              /\ api_keys[h].rate_limit = DocumentedLimit[api_keys[h].tier]

(***************************************************************************)
(* SpecList: one list query on arbitrary query parameters                  *)
(***************************************************************************)
MaxLimitLen == 3

LimitChars == {"-", "0", "1", "5", "a"}

\* the limit parameter: absent, or any short text
LimitParams ==
    {NoParam} \cup {Param(t) : t \in SeqsUpTo(LimitChars, MaxLimitLen)}

DocumentedStatuses == {"draft", "sent", "viewed", "paid", "overdue"}

StatusParams == {Undefined, "pending"} \cup DocumentedStatuses

InitList ==
    /\ vIn \in [limit : LimitParams, status : StatusParams,
                profile_id : {"merchantA", "merchantB"}]
    /\ vOut = [done |-> FALSE]
    /\ InitPayIdle
    /\ InitApiIdle

\* the list handler after validateApiKey, for the key of vIn.profile_id
ListCall ==
    /\ ~vOut.done
    /\ \E body \in ListResponses(apiInvoices, vIn.profile_id, vIn.limit, vIn.status) :
         vOut' = [done     |-> TRUE,
                  limit    |-> listLimit(vIn.limit),
                  response |-> body]
    /\ UNCHANGED <<vIn, payVars, walletVars, apiVars>>

NextList == ListCall

SpecList == InitList /\ [][NextList]_vars

\* the stored invoice a response item shows
StoredInvoice(id) ==
    apiInvoices[CHOOSE k \in 1..Len(apiInvoices) : apiInvoices[k].id = id]

Listed == vOut.done /\ vOut.response.status = 200

\* C22: a list request with a documented status value returns only invoices
\* of the merchant whose stored status is that value.
C22_StatusFilterHonoured ==
    (Listed /\ vIn.status \in DocumentedStatuses)
    => \A k \in 1..vOut.response.count :
         LET inv == StoredInvoice(vOut.response.invoices[k].invoice_id)
         IN  inv.merchant_id = vIn.profile_id /\ inv.status = vIn.status

\* C23: the limit passed to the query is never below 1 nor above 100, is the
\* requested number when that lies between 1 and 100, is at most 50 when the
\* parameter is absent or not a number, and bounds the returned invoices.
C23_LimitWithinBounds ==
    vOut.done =>
        /\ vOut.limit >= 1
        /\ vOut.limit <= 100
        /\ (~parseInt(vIn.limit).nan /\ parseInt(vIn.limit).value \in 1..100)
             => vOut.limit = parseInt(vIn.limit).value
        /\ parseInt(vIn.limit).nan => vOut.limit <= 50
        /\ Listed => vOut.response.count <= vOut.limit

\* the key of request r, while validateApiKey is about to select it
KeyHashOf(r) == hashApiKey(reqCtx[r].apiKey)

\* request r presents an active key whose calls are used up
UsedUpKey(r) ==
    /\ KeyHashOf(r) \in DOMAIN api_keys
    /\ api_keys[KeyHashOf(r)].is_active
    /\ api_keys[KeyHashOf(r)].calls_used >= api_keys[KeyHashOf(r)].rate_limit

\* C21: a request whose key has used up its rate limit is answered 429, not
\* the 401 of a missing or invalid key.
C21_RateLimitedGets429 ==
    [][\A r \in Requests :
          (reqPc[r] = "validate" /\ reqPc'[r] = "done" /\ UsedUpKey(r))
              => resp'[r].status = 429]_vars

\* request r, past validateApiKey in the given handler, answers in this step
Answers(r, handler) ==
    /\ reqPc[r] = "body"
    /\ reqCtx[r].handler = handler
    /\ reqPc'[r] = "done"

\* the invoice with this id belongs to another merchant than the key of r
ForeignId(r, id) ==
    \E k \in 1..Len(apiInvoices) :
        /\ apiInvoices[k].id = id
        /\ apiInvoices[k].merchant_id # reqCtx[r].auth.profile_id

\* C24: get and list return only invoices whose merchant_id is the profile_id
\* of the key used; for the id of another merchant's invoice get answers 404
\* with no invoice field, and list never includes such an invoice.
C24_OnlyOwnInvoices ==
    [][\A r \in Requests :
          /\ Answers(r, "get") =>
               LET asked == dbLog'[r][Len(dbLog'[r])].id
               IN  /\ resp'[r].status = 200 =>
                         /\ resp'[r].invoice.invoice_id = asked
                         /\ ~ForeignId(r, asked)
                   /\ ForeignId(r, asked) =>
                         /\ resp'[r].status = 404
                         /\ DOMAIN resp'[r] = {"status"}
          /\ (Answers(r, "list") /\ resp'[r].status = 200) =>
               \A k \in 1..resp'[r].count :
                   ~ForeignId(r, resp'[r].invoices[k].invoice_id)]_vars

\* a get for the invoice of merchant B with the key of merchant A was answered
\* 404, and a list with that key returned invoices
C24_Witness ==
    /\ \E r \in Requests :
         /\ reqPc[r] = "done"
         /\ resp[r].status = 404
         /\ dbLog[r][1].key = "rav_live_A"
         /\ dbLog[r][Len(dbLog[r])].id = 3
    /\ \E r \in Requests :
         /\ reqPc[r] = "done"
         /\ resp[r].status = 200
         /\ "count" \in DOMAIN resp[r]
         /\ resp[r].count > 0

\* C26: under any interleaving of requests with one key, the requests that
\* pass validateApiKey never outnumber the key's rate_limit, and calls_used
\* never rises above rate_limit.
C26_AcceptedWithinRateLimit ==
    \A h \in DOMAIN api_keys :
        /\ accepted[api_keys[h].id] <= api_keys[h].rate_limit
        /\ api_keys[h].calls_used <= api_keys[h].rate_limit

\* C27: calls_used of a key equals the number of requests validateApiKey has
\* accepted with it; no increment is lost when two requests overlap.
C27_NoLostIncrement ==
    \A h \in DOMAIN api_keys :
        api_keys[h].calls_used = accepted[api_keys[h].id]

\* request r presents a key of the table that is deactivated or deleted
DeadKey(r) ==
    /\ reqCtx[r].apiKey \in ApiKeyStrings
    /\ \/ KeyHashOf(r) \notin DOMAIN api_keys
       \/ ~api_keys[KeyHashOf(r)].is_active

\* request r has touched the invoices table or the invoice number function
TouchedInvoices(log) ==
    \E k \in 1..Len(log) : log[k].table \in {"invoices", "rpc"}

\* C28: a validateApiKey call that starts while the key is deactivated or
\* deleted returns null: the request is answered 401, no invoice is read or
\* written and calls_used does not change.
C28_DeadKeyRejected ==
    [][\A r \in Requests :
          (reqPc[r] = "validate" /\ reqPc'[r] # "validate" /\ DeadKey(r))
              => /\ reqPc'[r] = "done"
                 /\ resp'[r].status = 401
                 /\ api_keys' = api_keys
                 /\ apiInvoices' = apiInvoices
                 /\ ~TouchedInvoices(dbLog'[r])]_vars

\* a request with the key of merchant A was answered 401 on the select alone
\* although the key, now deactivated, has calls left
C28_Witness ==
    /\ hashApiKey("rav_live_A") \in DOMAIN api_keys
    /\ ~api_keys[hashApiKey("rav_live_A")].is_active
    /\ api_keys[hashApiKey("rav_live_A")].calls_used < RateLimit
    /\ \E r \in Requests :
         /\ reqPc[r] = "done"
         /\ resp[r].status = 401
         /\ Len(dbLog[r]) = 1
         /\ dbLog[r][1].key = "rav_live_A"

\* C29: every handler checks the method, then the presence of the header,
\* then calls validateApiKey, and only then touches the invoices table: a
\* request that fails the first two checks issues no database operation, and
\* an invoice is read or inserted only after validateApiKey has returned a key.
C29_ChecksBeforeInvoices ==
    [][\A r \in Requests :
          /\ (reqPc[r] = "idle" /\ reqPc'[r] = "done")
               => /\ dbLog'[r] = <<>>
                  /\ api_keys' = api_keys
                  /\ apiInvoices' = apiInvoices
          /\ (reqPc[r] = "idle" /\ reqPc'[r] = "validate")
               => /\ reqCtx'[r].method = AllowedMethod(reqCtx'[r].handler)
                  /\ reqCtx'[r].apiKey # Undefined
                  /\ dbLog'[r] = <<>>
          /\ TouchedInvoices(dbLog'[r])
               => /\ Len(dbLog'[r]) >= 3
                  /\ dbLog'[r][1].table = "api_keys" /\ dbLog'[r][1].op = "select"
                  /\ dbLog'[r][2].table = "api_keys" /\ dbLog'[r][2].op = "update"
                  /\ \A k \in 1..2 : dbLog'[r][k].table = "api_keys"
          /\ apiInvoices' # apiInvoices
               => \E q \in Requests : TouchedInvoices(dbLog'[q])]_vars

\* one request was refused for its method without a database operation and
\* another reached the invoices table after validateApiKey
C29_Witness ==
    /\ \E r \in Requests :
         reqPc[r] = "done" /\ resp[r].status = 405 /\ dbLog[r] = <<>>
    /\ \E r \in Requests :
         /\ Len(dbLog[r]) >= 3
         /\ dbLog[r][3].table = "invoices"

\* the sum of price times quantity over the items
RECURSIVE SumOfItems(_)
SumOfItems(items) ==
    IF items = <<>> THEN 0
    ELSE items[1].price * items[1].quantity + SumOfItems(Tail(items))

\* request r is answered with this status in this step
AnsweredWith(r, status) ==
    reqPc[r] # "done" /\ reqPc'[r] = "done" /\ resp'[r].status = status

\* C30: a create request answered 400 inserts no invoice; a request answered
\* 201 has inserted exactly one invoice, whose amount is the sum of price times
\* quantity over its items and whose merchant is the profile_id of the key; no
\* invoice is inserted otherwise.
C30_CreateInsertsOnlyOn201 ==
    [][/\ \A r \in Requests :
            /\ AnsweredWith(r, 400)
                 => apiInvoices' = apiInvoices /\ ~TouchedInvoices(dbLog'[r])
            /\ AnsweredWith(r, 201)
                 => /\ Len(apiInvoices') = Len(apiInvoices) + 1
                    /\ SubSeq(apiInvoices', 1, Len(apiInvoices)) = apiInvoices
                    /\ LET inv == apiInvoices'[Len(apiInvoices')]
                       IN  /\ inv.amount = SumOfItems(inv.items)
                           /\ Len(inv.items) > 0
                           /\ inv.client_email # Undefined
                           /\ inv.merchant_id = reqCtx[r].auth.profile_id
       /\ apiInvoices' # apiInvoices
            => \E r \in Requests : AnsweredWith(r, 201)]_vars

\* one request was answered 201 and its invoice is stored, another 400
C30_Witness ==
    /\ Len(apiInvoices) = Len(SeedInvoices) + 1
    /\ \E r \in Requests : reqPc[r] = "done" /\ resp[r].status = 201
    /\ \E r \in Requests : reqPc[r] = "done" /\ resp[r].status = 400

(***************************************************************************)
(* Properties of the invoice update (Spec)                                 *)
(***************************************************************************)
\* session s performs its invoice update in this step
UpdateStep(s) == pc[s] \in {"sent", "confirmed"} /\ pc'[s] = "done"

PrePaid == {"sent", "viewed", "overdue"}

\* C1: when two updates with different hashes have both run on the invoice,
\* exactly one succeeded, the invoice holds that call's hash, and the other
\* failed with AlreadyPaidWithDifferentTx.
C1_ExactlyOneWins ==
    \A s, t \in Sessions :
        (s # t /\ pc[s] = "done" /\ pc[t] = "done" /\ tx[s] # tx[t])
        => \/ /\ result[s] = "ok"
              /\ result[t] = "AlreadyPaidWithDifferentTx"
              /\ invoices[invoiceId].tx_hash = tx[s]
           \/ /\ result[t] = "ok"
              /\ result[s] = "AlreadyPaidWithDifferentTx"
              /\ invoices[invoiceId].tx_hash = tx[t]

\* C2: an update with a hash different from the one stored on a paid invoice
\* fails with AlreadyPaidWithDifferentTx and leaves the row as it was.
C2_DifferentTxRejected ==
    [][\A s \in Sessions :
          (/\ UpdateStep(s)
           /\ invoices[invoiceId].status = "paid"
           /\ invoices[invoiceId].tx_hash # tx[s])
          => /\ result'[s] = "AlreadyPaidWithDifferentTx"
             /\ invoices' = invoices]_vars

\* C3: the update is idempotent: on a sent, viewed or overdue invoice it
\* stores paid with the supplied hash, and repeated with the same hash on the
\* invoice it has paid it reports no error and leaves status, tx_hash and
\* paid_at as the first call left them.
C3_MarkPaidIdempotent ==
    [][\A s \in Sessions :
          UpdateStep(s) =>
            /\ result'[s] = "ok"
            /\ invoices[invoiceId].status \in PrePaid =>
                 invoices'[invoiceId] =
                    [invoices[invoiceId] EXCEPT !.status = "paid",
                                                !.tx_hash = tx[s]]
            /\ (/\ invoices[invoiceId].status = "paid"
                /\ invoices[invoiceId].tx_hash = tx[s])
               => invoices' = invoices]_vars

\* two sessions have run the update with the same hash, the second on the
\* invoice the first had paid
C3_Witness ==
    \E s, t \in Sessions :
        /\ s # t
        /\ pc[s] = "done" /\ pc[t] = "done"
        /\ tx[s] = tx[t]
        /\ result[s] = "ok" /\ result[t] = "ok"
        /\ invoices[invoiceId].status = "paid"
        /\ invoices[invoiceId].tx_hash = tx[s]
        /\ now > 0

\* C4: tx_hash and paid_at are set together or not at all, and a paid invoice
\* has both.
C4_TxHashAndPaidAtTogether ==
    \A i \in InvoiceIds :
        /\ (invoices[i].tx_hash = NULL) <=> (invoices[i].paid_at = NoTime)
        /\ invoices[i].status = "paid" =>
              invoices[i].tx_hash # NULL /\ invoices[i].paid_at # NoTime

\* C5: a paid invoice stores a hash that verifyPayment has answered verified
\* for, so the invoice became paid only after a passed verification.
C5_PaidOnlyAfterVerified ==
    \A i \in InvoiceIds :
        invoices[i].status = "paid" => invoices[i].tx_hash \in verifiedTx

\* C6: paid is terminal: no step moves a paid invoice to another status.
C6_PaidIsTerminal ==
    [][\A i \in InvoiceIds :
          invoices[i].status = "paid" => invoices'[i].status = "paid"]_vars

\* the invoice is paid, past its due date, and a second update has run on it
C6_Witness ==
    /\ invoices[invoiceId].status = "paid"
    /\ now > invoices[invoiceId].due_date
    /\ \E s, t \in Sessions : s # t /\ pc[s] = "done" /\ pc[t] = "done"

(***************************************************************************)
(* Properties of verifyPayment (SpecVerify)                                *)
(***************************************************************************)
Called == vOut.done /\ vOut.called

\* the RPC returned a receipt of a successful transaction
SuccessReceipt ==
    /\ Called
    /\ vIn.network \in Networks
    /\ vIn.receipt # Null
    /\ vIn.receipt.status = 1

IsTransfer(log) == Len(log.topics) >= 1 /\ log.topics[1] = transferTopic

\* the first log carrying the Transfer signature, whoever emitted it
FirstTransfer ==
    LET idx == {k \in 1..Len(vIn.receipt.logs) : IsTransfer(vIn.receipt.logs[k])}
    IN  vIn.receipt.logs[CHOOSE k \in idx : \A j \in idx : k <= j]

\* every check before the amount check passes
ReachesAmountCheck ==
    /\ SuccessReceipt
    /\ \E k \in 1..Len(vIn.receipt.logs) : IsTransfer(vIn.receipt.logs[k])
    /\ Len(FirstTransfer.topics) = 3
    /\ FirstTransfer.data # <<>>
    /\ FirstTransfer.topics[3].acct = vIn.expectedRecipient.acct

Below == {<<0>>, BigPred(vIn.expected.value)}
AtOrAbove == {vIn.expected.value, BigSucc(vIn.expected.value),
              vIn.expected.value \o <<0>>}

BothAnswer(r) == vOut.blockchain = r /\ vOut.security = r

\* C7: Amount mismatch is reported exactly when the decoded amount is below
\* the invoice amount in the token's smallest unit: one unit below is
\* rejected, the exact amount and any larger amount pass.
C7_AmountBoundary ==
    /\ ReachesAmountCheck =>
         /\ FirstTransfer.data \in {EncodeUint(a) : a \in Below}
              => BothAnswer(Error("Amount mismatch"))
         /\ FirstTransfer.data \in {EncodeUint(a) : a \in AtOrAbove}
              => vOut.blockchain.verified /\ vOut.security.verified
    /\ (Called /\ (\/ vOut.blockchain = Error("Amount mismatch")
                   \/ vOut.security = Error("Amount mismatch")))
         => /\ ReachesAmountCheck
            /\ FirstTransfer.data \in {EncodeUint(a) : a \in Below}

\* a transfer of exactly the expected amount on celo (18 decimals) passed
C7_Witness ==
    /\ ReachesAmountCheck
    /\ vIn.network = "celo"
    /\ vIn.usdAmount = amount100
    /\ FirstTransfer.data = EncodeUint(vIn.expected.value)
    /\ vOut.blockchain.verified

\* C8: verifyPayment never answers verified when no Transfer log of the
\* receipt was emitted by the network's stablecoin contract, even when a
\* Transfer log of another contract matches recipient and amount.
C8_ForeignTransferRejected ==
    (/\ SuccessReceipt
     /\ \A k \in 1..Len(vIn.receipt.logs) :
           IsTransfer(vIn.receipt.logs[k]) =>
              vIn.receipt.logs[k].address #
                 NETWORKS[vIn.network].stablecoin.address)
    => ~vOut.blockchain.verified /\ ~vOut.security.verified

C10_NotFoundIsDistinct ==
    (Called /\ vIn.network \in Networks /\ vIn.receipt = Null)
    => BothAnswer(Error("Transaction not found"))

\* every check before the recipient check passes
ReachesRecipientCheck ==
    /\ SuccessReceipt
    /\ \E k \in 1..Len(vIn.receipt.logs) : IsTransfer(vIn.receipt.logs[k])
    /\ Len(FirstTransfer.topics) = 3
    /\ FirstTransfer.data # <<>>

AnyAnswers(r) == vOut.blockchain = r \/ vOut.security = r

\* C11: Recipient mismatch is reported exactly when the recipient decoded from
\* the Transfer log is another account than the expected recipient; the same
\* account written in another letter case is accepted as equal.
C11_RecipientCaseInsensitive ==
    /\ ReachesRecipientCheck =>
         (BothAnswer(Error("Recipient mismatch"))
            <=> FirstTransfer.topics[3].acct # vIn.expectedRecipient.acct)
    /\ (Called /\ AnyAnswers(Error("Recipient mismatch")))
         => /\ ReachesRecipientCheck
            /\ FirstTransfer.topics[3].acct # vIn.expectedRecipient.acct

\* the expected recipient was given in lower case, the decoded one is
\* checksummed, and the payment was verified
C11_Witness ==
    /\ ReachesRecipientCheck
    /\ vIn.expectedRecipient = Addr("merchant", "lower")
    /\ vOut.blockchain.verified
    /\ vOut.blockchain.recipient = Addr("merchant", "checksum")

\* the invoices table as it was before the call
InvoicesBeforeCall == [i \in InvoiceIds |-> NewInvoice("sent")]

C18_UnsupportedNetworkReported ==
    (Called /\ vIn.network \notin Networks)
    => BothAnswer(Error("Unsupported network"))

\* a log with the Transfer signature, three topics and a data word
WellFormedTransfer(log) ==
    /\ IsTransfer(log)
    /\ Len(log.topics) = 3
    /\ Len(log.data) = DataWidth

\* C19: when a successful receipt holds no well-formed Transfer log, a log
\* with the Transfer signature and a wrong topic count or data length among
\* its logs does not change the answer: Transfer event not found.
C19_MalformedLogNotFound ==
    (/\ SuccessReceipt
     /\ \A k \in 1..Len(vIn.receipt.logs) :
           ~WellFormedTransfer(vIn.receipt.logs[k]))
    => BothAnswer(Error("Transfer event not found"))

\* C14: a tx_hash that is set never changes, and paid_at is written exactly
\* once, in the step in which the status becomes paid.
C14_TxHashImmutablePaidAtOnce ==
    [][\A i \in InvoiceIds :
          /\ invoices[i].tx_hash # NULL =>
                invoices'[i].tx_hash = invoices[i].tx_hash
          /\ invoices'[i].paid_at # invoices[i].paid_at =>
                /\ invoices[i].paid_at = NoTime
                /\ invoices[i].status # "paid"
                /\ invoices'[i].status = "paid"
          /\ (invoices[i].status # "paid" /\ invoices'[i].status = "paid") =>
                invoices'[i].paid_at # NoTime]_vars

\* session s runs the notifier in this step
NotifyStep(s) == pc[s] = "done" /\ pc'[s] \in {"notified", "notifyFailed"}

C16_LatePaymentAccepted ==
    [][/\ \A s \in Sessions :
            (/\ UpdateStep(s)
             /\ \/ invoices[invoiceId].status = "overdue"
                \/ now > invoices[invoiceId].due_date)
            => /\ result'[s] = "ok"
               /\ invoices'[invoiceId].status = "paid"
               /\ invoices'[invoiceId].tx_hash = tx[s]
       /\ \A i \in InvoiceIds :
            invoices[i].status = "paid" => invoices'[i].status # "overdue"]_vars

\* the invoice was overdue when it became paid
C16_Witness ==
    /\ paidFrom = "overdue"
    /\ invoices[invoiceId].status = "paid"
    /\ now > invoices[invoiceId].due_date

\* the step is a view event
ViewStep == views' = views + 1

\* C17: a view changes the status only from sent to viewed; a view of an
\* invoice in any other status changes nothing, and only a view makes an
\* invoice viewed.
C17_ViewOnlyFromSent ==
    [][\A i \in InvoiceIds :
          /\ ViewStep =>
                invoices' = IF invoices[i].status = "sent"
                            THEN [invoices EXCEPT ![i].status = "viewed"]
                            ELSE invoices
          /\ (invoices'[i].status = "viewed" /\ invoices[i].status # "viewed")
                => ViewStep /\ invoices[i].status = "sent"]_vars

\* the invoice has been viewed twice and then paid, and is still paid
C17_Witness ==
    /\ views >= 2
    /\ paidFrom = "viewed"
    /\ invoices[invoiceId].status = "paid"

====
